---- MODULE Spec2Model ----
(***************************************************************************)
(* Job tracking core of the DeepOrigin client (src/src/platform/job.py):   *)
(* one Job object, the Execution Gateway it talks to, the notebook         *)
(* displays it publishes to, and the background pollers started by         *)
(* Job.watch().                                                            *)
(*                                                                         *)
(* Threads of control.  Calls made by the user (from_id, from_dto, sync,   *)
(* cancel, confirm, watch, stop_watching) and the steps of the poller      *)
(* coroutines all run on the event-loop thread, so each of them is one     *)
(* atomic action between two suspension points.  Job.sync() run through    *)
(* asyncio.to_thread runs on a worker thread and interleaves with          *)
(* everything else: it is modelled in steps (Gateway.get answered,          *)
(* _attributes written, status written).                                   *)
(***************************************************************************)
EXTENDS Naturals, Sequences, FiniteSets, TLC

\* Number of watch() calls that create a poller task (bound of the model).
MaxPollers == 2

None == "None"

\* Status vocabulary (a representative of each class: the billing gate, a
\* non-terminal running state, a terminal success, a terminal cancellation).
Statuses == {"Quoted", "Running", "Succeeded", "Cancelled"}

TERMINAL_STATES == {"Succeeded", "Cancelled"}

\* `self.status and self.status in TERMINAL_STATES`
IsTerminal(s) == s # None /\ s \in TERMINAL_STATES

\* An execution DTO: the fields the Job core reads.
Dto(s) == [executionId |-> "id", status |-> s]

\* The DTOs the Gateway can hold.
DTOs == {Dto(s) : s \in Statuses}

\* DTOs a caller may hand to from_dto: "status" may be missing (dto.get -> None).
DtoInputs == DTOs \cup {Dto(None)}

\* dto.get("status")
DtoStatus(dto) == dto.status

\* Job._attributes is None (a DTO always carries an executionId)
NoSnapshot == [executionId |-> None, status |-> None]

\* Job._task is None, Job._display_id is None
NoTask == 0

NoDisplay == 0

\* Job._last_html is None
NoHtml == [status |-> None, auto |-> FALSE]

Pollers == 1 .. MaxPollers

ThreadKinds == {"loop", "final"}

Threads == Pollers \X ThreadKinds

IdleThread == [st |-> "idle", resp |-> NoSnapshot]

\* No user call was made by the last step.
NoOp == [op |-> "none", calls |-> <<>>, result |-> "ok", reported |-> None, dto |-> NoSnapshot]

VARIABLES
    gw,          \* the remote execution held by the Gateway: a DTO
    built,       \* has the Job object been constructed
    attributes,  \* Job._attributes: the cached snapshot (a DTO) or NoSnapshot
    status,      \* Job.status
    client,      \* Job.client is not None
    task,        \* Job._task: a poller or NoTask
    display_id,  \* Job._display_id: a display or NoDisplay
    last_html,   \* Job._last_html: the last view published by a tick, or NoHtml
    pc,          \* per poller: where its coroutine is suspended, or how it ended
    cancelled,   \* per poller: Task.cancel() requested, CancelledError not yet delivered
    thr,         \* per poller and kind: the worker thread running sync()
    published,   \* what the most recently created display shows
    lastOp,      \* the user call made by the last step (NoOp if none): its name,
                 \* the Gateway calls and renders it made, its outcome, the
                 \* status its error reports, and the DTO it was given (from_dto)
                 \* or got from a successful Gateway.get
    logged,      \* the user calls lastOp keeps (a history variable: all of them
                 \* in SpecCalls, stop_watching in SpecStop, none in Spec)
    members,     \* JobList.jobs of the list confirm()/cancel() run on: per member
                 \* its Job's status and client, and its remote execution
    bulk,        \* the JobList.confirm()/cancel() call in progress
    futures,     \* per member: the future of its submitted operation
    listing,     \* the JobList.list() call in progress
    filtering,   \* the JobLists of a JobList.filter() call
    instances,   \* DeepOriginClient._instances: the registry, in insertion order
    clients,     \* per DeepOriginClient object: its transport's state and its key
    clientOp     \* the DeepOriginClient call made by the last step

vars == <<gw, built, attributes, status, client, task, display_id, last_html,
          pc, cancelled, thr, published, lastOp, logged,
          members, bulk, futures, listing, filtering,
          instances, clients, clientOp>>

\* The DeepOriginClient part of the state.
registryVars == <<instances, clients, clientOp>>

\* The JobList and DeepOriginClient part of the state.
collectionVars == <<members, bulk, futures, listing, filtering, registryVars>>

jobVars == <<built, attributes, status, client, task, display_id, last_html, logged,
             collectionVars>>

pollerVars == <<pc, cancelled, thr, published>>

----------------------------------------------------------------------------
(* Execution Gateway *)

\* Gateway.get(id): the current DTO of the execution.
GatewayGet == gw

\* Gateway.cancel(id): accepted for a non-terminal execution.
GatewayCancelAccepts == gw.status \notin TERMINAL_STATES

GatewayCancel == [gw EXCEPT !.status = "Cancelled"]

\* Gateway.confirm(id): accepted for a quoted execution; it starts running.
GatewayConfirmAccepts == gw.status = "Quoted"

GatewayConfirm == [gw EXCEPT !.status = "Running"]

\* The remote execution finishes on its own.
GatewayProgress ==
    /\ gw.status = "Running"
    /\ gw' = [gw EXCEPT !.status = "Succeeded"]
    /\ lastOp' = NoOp
    /\ UNCHANGED <<jobVars, pollerVars>>

----------------------------------------------------------------------------
(* User calls on the Job *)

\* The record of a user call.
Op(name, calls, result, reported, dto) ==
    IF name \in logged
      THEN [op |-> name, calls |-> calls, result |-> result, reported |-> reported,
            dto |-> dto]
      ELSE NoOp

\* A sync() that forgets line 188.
SyncAttributesKept(result) == attributes

\* Job.sync(), lines 187-189: a response replaces the snapshot and the status.
\* (Every Gateway DTO carries an executionId, so `if result:` is true.)
SyncAttributes(result) == result

\* A sync() that forgets line 189.
SyncStatusKept(result) == status

SyncStatus(result) == DtoStatus(result)

\* A sync() that drops the snapshot before it asks the Gateway.
FailedSyncAttributesCleared == NoSnapshot

\* Job.sync(), line 185 raising: lines 187-189 are not reached.
FailedSyncAttributes == attributes

FailedSyncStatus == status

\* Job.sync() has no handler around line 185: the Gateway's error is the
\* caller's.
SyncResult(ok) == IF ok THEN "ok" ELSE "GatewayError"

\* Job.sync() on the calling thread, after the Gateway calls in `before`.
\* ok: does Gateway.get succeed; dto: the DTO it returns.
SyncBody(ok, dto, name, before) ==
    /\ client' = TRUE
    /\ attributes' = IF ok THEN SyncAttributes(dto) ELSE FailedSyncAttributes
    /\ status' = IF ok THEN SyncStatus(dto) ELSE FailedSyncStatus
    /\ lastOp' = Op(name, before \o <<"get">>, SyncResult(ok), None,
                    IF ok THEN dto ELSE NoSnapshot)

\* A user call that raised before changing anything.
Raised(name, calls, error, reported) ==
    /\ lastOp' = Op(name, calls, error, reported, NoSnapshot)
    /\ UNCHANGED <<gw, attributes, status, client>>

\* Job.from_id(id): the constructor runs sync(); if it raises there is no Job.
FromId ==
    /\ ~built
    /\ \E ok \in BOOLEAN :
         /\ SyncBody(ok, GatewayGet, "from_id", <<>>)
         /\ built' = ok
    /\ UNCHANGED <<collectionVars, logged, gw, task, display_id, last_html, pollerVars>>

\* Job.from_dto(dto, client=...), lines 154-155
FromDtoAttributes(dto) == dto

\* A from_dto() that forgets line 155.
FromDtoStatusUnset(dto) == None

FromDtoStatus(dto) == DtoStatus(dto)

\* Job.from_dto(dto, client=...): no sync, fields copied from the DTO.
FromDto ==
    /\ ~built
    /\ \E dto \in DtoInputs, c \in BOOLEAN :
         /\ built' = TRUE
         /\ client' = c
         /\ attributes' = FromDtoAttributes(dto)
         /\ status' = FromDtoStatus(dto)
         /\ lastOp' = Op("from_dto", <<>>, "ok", None, dto)
    /\ UNCHANGED <<collectionVars, logged, gw, task, display_id, last_html, pollerVars>>

Sync ==
    /\ built
    /\ \E ok \in BOOLEAN : SyncBody(ok, GatewayGet, "sync", <<>>)
    /\ UNCHANGED <<collectionVars, logged, gw, built, task, display_id, last_html, pollerVars>>

\* Does self.client.executions resolve (lines 548, 567: no default is looked up).
HasGateway == client

\* Job.cancel(): self.client.executions.cancel(...), then self.sync().
Cancel ==
    /\ built
    /\ IF ~HasGateway
         THEN Raised("cancel", <<>>, "AttributeError", None)
         ELSE \E okCancel \in BOOLEAN :
                IF okCancel /\ GatewayCancelAccepts
                  THEN /\ gw' = GatewayCancel
                       /\ \E okGet \in BOOLEAN :
                            SyncBody(okGet, GatewayCancel, "cancel", <<"cancel">>)
                  ELSE Raised("cancel", <<"cancel">>, "GatewayError", None)
    /\ UNCHANGED <<collectionVars, logged, built, task, display_id, last_html, pollerVars>>

\* A confirm() that refuses finished jobs only.
ConfirmAllowedUnlessTerminal(s) == ~IsTerminal(s)

\* Job.confirm(), line 560: only a Quoted job may be confirmed.
ConfirmAllowed(s) == s = "Quoted"

\* Job.confirm(): the status check, then as cancel().
Confirm ==
    /\ built
    /\ IF ~ConfirmAllowed(status)
         THEN Raised("confirm", <<>>, "InvalidState", status)
         ELSE IF ~HasGateway
           THEN Raised("confirm", <<>>, "AttributeError", None)
           ELSE \E okConfirm \in BOOLEAN :
                  IF okConfirm /\ GatewayConfirmAccepts
                    THEN /\ gw' = GatewayConfirm
                         /\ \E okGet \in BOOLEAN :
                              SyncBody(okGet, GatewayConfirm, "confirm", <<"confirm">>)
                    ELSE Raised("confirm", <<"confirm">>, "GatewayError", None)
    /\ UNCHANGED <<collectionVars, logged, built, task, display_id, last_html, pollerVars>>

----------------------------------------------------------------------------
(* Rendering and publishing *)

\* Job._render_job_view(will_auto_update=auto): the view shows the cached status;
\* a terminal status switches auto-update off (lines 372-373).
RenderView(auto) == [status |-> status, auto |-> auto /\ ~IsTerminal(status)]

\* display(initial_html, display_id=display_id), lines 448-451
Initializing == [kind |-> "initializing", html |-> NoHtml]

NotDisplayed == [kind |-> "none", html |-> NoHtml]

\* banner + (self._last_html or "No data yet."), lines 476-480
BannerOver(html) == [kind |-> "banner", html |-> html]

Plain(html) == [kind |-> "view", html |-> html]

\* update_display(..., display_id=self._display_id) raises TypeError without an id.
CanPublish == display_id # NoDisplay

\* The handle, when set, names the most recently created display.
Publish(content) == published' = content

----------------------------------------------------------------------------
(* watch() and stop_watching() *)

Unborn == {p \in Pollers : pc[p] = "unborn"}

\* Where a coroutine can be suspended: before its first step; awaiting the
\* loop's sync; sleeping; awaiting the final sync (after a terminal status, or
\* after a CancelledError).
InLoop == {"loopSync", "sleep"}

InFinally == {"finalTerminal", "finalCancelled"}

\* uuid4 / create_task: a fresh display and a fresh task per watch() call.
NewPoller == CHOOSE p \in Unborn : \A q \in Unborn : p <= q

\* A stop_watching() that drops the handle without cancelling the task.
StopWatchingNotCancelled == cancelled

\* Job.stop_watching(), lines 516-523: Task.cancel() only flags a task that has
\* not finished; the handle is dropped either way.
CancelTask(t) == [cancelled EXCEPT ![t] = (pc[t] # "done")]

StopWatchingCancelled == IF task # NoTask THEN CancelTask(task) ELSE cancelled

StopWatchingTask == NoTask

StopWatching ==
    /\ built
    /\ cancelled' = StopWatchingCancelled
    /\ task' = StopWatchingTask
    /\ lastOp' = Op("stop_watching", <<>>, "ok", None, NoSnapshot)
    /\ UNCHANGED <<collectionVars, logged, gw, built, attributes, status, client, display_id, last_html,
                   pc, thr, published>>

\* A watch() that follows its docstring's "Succeeded or Failed".
WatchReturnsEarlyUnlessCancelled == IsTerminal(status) /\ status # "Cancelled"

\* Job.watch(), line 434: a terminal cached status means render once and return.
WatchReturnsEarly == IsTerminal(status)

\* Job.watch() on a terminal Job: show() renders once; a render error propagates.
WatchTerminal ==
    /\ built
    /\ WatchReturnsEarly
    /\ \E renderOk \in BOOLEAN :
         lastOp' = Op("watch", <<"render">>, IF renderOk THEN "ok" ELSE "RenderError",
                      None, NoSnapshot)
    /\ UNCHANGED <<gw, jobVars, pollerVars>>

\* Job.watch() otherwise: stop the old task, publish the placeholder on a new
\* display, schedule a new task.
WatchStart ==
    /\ built
    /\ ~WatchReturnsEarly
    /\ Unborn # {}
    /\ cancelled' = StopWatchingCancelled
    /\ display_id' = NewPoller
    /\ published' = Initializing
    /\ pc' = [pc EXCEPT ![NewPoller] = "ready"]
    /\ task' = NewPoller
    /\ lastOp' = Op("watch", <<>>, "ok", None, NoSnapshot)
    /\ UNCHANGED <<collectionVars, logged, gw, built, attributes, status, client, last_html, thr>>

----------------------------------------------------------------------------
(* Worker threads: asyncio.to_thread(self.sync) *)

\* sync() handed to a worker thread, lines 181-185: the client is resolved and
\* Gateway.get answers (ok) or fails.
StartThread(base, t, ok) ==
    [base EXCEPT ![t] = IF ok THEN [st |-> "got", resp |-> GatewayGet]
                              ELSE [st |-> "failed", resp |-> NoSnapshot]]

\* Does the coroutine of poller t[1] await this thread.
Awaited(t) ==
    \/ t[2] = "loop" /\ pc[t[1]] = "loopSync"
    \/ t[2] = "final" /\ pc[t[1]] \in InFinally

\* sync(), line 188
ThreadWriteAttributes(t) ==
    /\ thr[t].st = "got"
    /\ attributes' = SyncAttributes(thr[t].resp)
    /\ thr' = [thr EXCEPT ![t].st = "wrote"]
    /\ lastOp' = NoOp
    /\ UNCHANGED <<collectionVars, logged, gw, built, status, client, task, display_id, last_html,
                   pc, cancelled, published>>

\* sync(), line 189; a thread nobody awaits leaves no trace once it has finished.
ThreadWriteStatus(t) ==
    /\ thr[t].st = "wrote"
    /\ status' = SyncStatus(thr[t].resp)
    /\ thr' = [thr EXCEPT ![t] = IF Awaited(t) THEN [st |-> "ok", resp |-> NoSnapshot]
                                              ELSE IdleThread]
    /\ lastOp' = NoOp
    /\ UNCHANGED <<collectionVars, logged, gw, built, attributes, client, task, display_id, last_html,
                   pc, cancelled, published>>

----------------------------------------------------------------------------
(* The poller coroutine: update_progress_report(), lines 453-499 *)

LoopThread(p) == <<p, "loop">>

FinalThread(p) == <<p, "final">>

Returned(t) == thr[t].st \in {"ok", "failed"}

\* The result of the awaited thread has been taken (or dropped).
Consumed(t) == IF Returned(t) THEN [thr EXCEPT ![t] = IdleThread] ELSE thr

\* Top of the loop, line 464: hand sync() to a worker thread and await it.
LoopTop(p) ==
    /\ ~cancelled[p]
    /\ pc' = [pc EXCEPT ![p] = "loopSync"]
    /\ client' = TRUE
    /\ \E ok \in BOOLEAN : thr' = StartThread(thr, LoopThread(p), ok)
    /\ lastOp' = NoOp
    /\ UNCHANGED <<collectionVars, logged, gw, built, attributes, status, task, display_id, last_html,
                   cancelled, published>>

\* The task's first step.
PollerStart(p) ==
    /\ pc[p] = "ready"
    /\ LoopTop(p)

\* Line 486 returning: the sleep is over, next iteration.
PollerWake(p) ==
    /\ pc[p] = "sleep"
    /\ LoopTop(p)

\* A loop without the check of line 471.
BreakAfterTickNever(s) == FALSE

\* Line 471: leave the loop once the cached status is terminal.
BreakAfterTick(s) == IsTerminal(s)

\* Line 489: the cleanup is guarded by the display handle.
FinallyRuns == display_id # NoDisplay

\* Leaving the while loop enters the finally block, which either starts the
\* final sync on a worker thread and awaits it (lines 490-491) or does nothing.
\* why: "Terminal" (break), "Cancelled" (CancelledError) or "Error".
LoopExit(p, why, base) ==
    IF FinallyRuns
      THEN /\ pc' = [pc EXCEPT ![p] = IF why = "Terminal" THEN "finalTerminal"
                                                         ELSE "finalCancelled"]
           /\ client' = TRUE
           /\ \E ok \in BOOLEAN : thr' = StartThread(base, FinalThread(p), ok)
      ELSE /\ pc' = [pc EXCEPT ![p] = "done"]
           /\ thr' = base
           /\ UNCHANGED client

\* A loop that goes from a tick straight into the next sync.
SleepSkipped(p) ==
    /\ pc' = [pc EXCEPT ![p] = "loopSync"]
    /\ thr' = StartThread(Consumed(LoopThread(p)), LoopThread(p), TRUE)
    /\ UNCHANGED client

\* After a tick that did not leave the loop: `await asyncio.sleep(interval)`.
Sleep(p) ==
    /\ pc' = [pc EXCEPT ![p] = "sleep"]
    /\ thr' = Consumed(LoopThread(p))
    /\ UNCHANGED client

\* Lines 464-486 after the awaited sync returned or raised: render, publish,
\* check the status; on any exception publish the banner; then sleep.
PollerTick(p) ==
    /\ pc[p] = "loopSync"
    /\ ~cancelled[p]
    /\ Returned(LoopThread(p))
    /\ \E renderOk \in BOOLEAN :
         IF thr[LoopThread(p)].st = "ok" /\ renderOk /\ CanPublish
           THEN /\ Publish(Plain(RenderView(TRUE)))
                /\ last_html' = RenderView(TRUE)
                /\ IF BreakAfterTick(status)
                     THEN LoopExit(p, "Terminal", Consumed(LoopThread(p)))
                     ELSE Sleep(p)
           ELSE IF CanPublish
             THEN /\ Publish(BannerOver(last_html))
                  /\ Sleep(p)
                  /\ UNCHANGED last_html
             ELSE \* the handler itself raises: the exception leaves the loop
                  /\ LoopExit(p, "Error", Consumed(LoopThread(p)))
                  /\ UNCHANGED <<last_html, published>>
    /\ lastOp' = NoOp
    /\ UNCHANGED <<collectionVars, logged, gw, built, attributes, status, task, display_id, cancelled>>

\* Lines 494-499 after the final sync returned or raised (either is swallowed):
\* render with auto-update off, publish (errors swallowed), drop the handle.
FinalDisplayId == NoDisplay

PollerFinal(p) ==
    /\ pc[p] \in InFinally
    /\ ~cancelled[p]
    /\ Returned(FinalThread(p))
    /\ \E renderOk \in BOOLEAN :
         IF renderOk /\ CanPublish
           THEN Publish(Plain(RenderView(FALSE)))
           ELSE UNCHANGED published
    /\ display_id' = FinalDisplayId
    /\ pc' = [pc EXCEPT ![p] = "done"]
    /\ thr' = Consumed(FinalThread(p))
    /\ lastOp' = NoOp
    /\ UNCHANGED <<collectionVars, logged, gw, built, attributes, status, client, task, last_html, cancelled>>

\* CancelledError delivered at the coroutine's suspension point.  It is not an
\* Exception: no handler catches it.  A task that never ran ends without
\* entering its body; in the loop it runs the finally block; inside the
\* finally block (awaiting the final sync) it ends the cleanup there.
PollerCancelled(p) ==
    /\ cancelled[p]
    /\ pc[p] \in {"ready"} \cup InLoop \cup InFinally
    /\ cancelled' = [cancelled EXCEPT ![p] = FALSE]
    /\ IF pc[p] = "ready"
         THEN /\ pc' = [pc EXCEPT ![p] = "done"]
              /\ UNCHANGED <<thr, client>>
         ELSE IF pc[p] \in InFinally
           THEN /\ pc' = [pc EXCEPT ![p] = "done"]
                /\ thr' = Consumed(FinalThread(p))
                /\ UNCHANGED client
           ELSE LoopExit(p, "Cancelled", Consumed(LoopThread(p)))
    /\ lastOp' = NoOp
    /\ UNCHANGED <<collectionVars, logged, gw, built, attributes, status, task, display_id, last_html, published>>

----------------------------------------------------------------------------
(* JobList.confirm() and JobList.cancel(), lines 637-655 *)

\* Bounds: the longest member list, the largest max_workers argument.
MaxMembers == 2

MaxWorkers == 2

\* A member Job and its remote execution, as from_id or a sync() left them, with
\* or without a client (from_dto without client=).
Member(s, c) == [status |-> s, client |-> c, remote |-> s]

MemberKinds == {Member(s, c) : s \in {"Quoted", "Running", "Succeeded"}, c \in BOOLEAN}

MemberLists == UNION {[1 .. n -> MemberKinds] : n \in 0 .. MaxMembers}

NoBulk == [op |-> "none", st |-> "idle", workers |-> 0, result |-> "ok", failed |-> {}]

\* executor.submit(job.confirm): a future, not yet picked up by a worker.
Submitted == [st |-> "pending", invoked |-> 0, error |-> None]

\* Job.confirm() / Job.cancel() on member m, as Confirm and Cancel above.
\* okCall, okGet: do the Gateway's confirm/cancel and get answer.
MemberOutcome(op, m, okCall, okGet) ==
    IF op = "confirm" /\ ~ConfirmAllowed(m.status)
      THEN [m |-> m, error |-> "InvalidState"]
    ELSE IF ~m.client
      THEN [m |-> m, error |-> "AttributeError"]
    ELSE IF ~okCall \/ (op = "confirm" /\ m.remote # "Quoted")
                   \/ (op = "cancel" /\ m.remote \in TERMINAL_STATES)
      THEN [m |-> m, error |-> "GatewayError"]
    ELSE LET after == IF op = "confirm" THEN "Running" ELSE "Cancelled"
         IN  IF okGet
               THEN [m |-> [m EXCEPT !.remote = after, !.status = after], error |-> None]
               ELSE [m |-> [m EXCEPT !.remote = after], error |-> "GatewayError"]

\* The futures whose operation raised.
FailedFutures == {i \in DOMAIN futures : futures[i].error # None}

\* Lines 643-645 and 653-655: the call returns None whatever the futures hold;
\* no future's result() or exception() is looked at.
BulkResult == "ok"

BulkFailed == {}

\* The call returns after concurrent.futures.wait(futures) and the executor's
\* shutdown(wait=True) at the end of the with block.
BulkMayReturnOnFirst == \E i \in DOMAIN futures : futures[i].st = "done"

BulkMayReturn == \A i \in DOMAIN futures : futures[i].st = "done"

\* JobList.confirm(max_workers) / JobList.cancel(max_workers): one future per
\* member, in list order.
BulkStart ==
    /\ bulk.st = "idle"
    /\ \E op \in {"confirm", "cancel"}, w \in 1 .. MaxWorkers :
         bulk' = [NoBulk EXCEPT !.op = op, !.st = "running", !.workers = w]
    /\ futures' = [i \in DOMAIN members |-> Submitted]
    /\ UNCHANGED <<gw, built, attributes, status, client, task, display_id, last_html,
                   pc, cancelled, thr, published, lastOp, logged, registryVars,
                   members, listing, filtering>>

\* A worker of the pool is free.
WorkerFree == Cardinality({i \in DOMAIN futures : futures[i].st = "running"}) < bulk.workers

\* A free worker takes the oldest pending future and calls the member's method.
MemberStart(i) ==
    /\ bulk.st = "running"
    /\ futures[i].st = "pending"
    /\ \A k \in DOMAIN futures : k < i => futures[k].st # "pending"
    /\ WorkerFree
    /\ futures' = [futures EXCEPT ![i].st = "running", ![i].invoked = @ + 1]
    /\ UNCHANGED <<gw, built, attributes, status, client, task, display_id, last_html,
                   pc, cancelled, thr, published, lastOp, logged, registryVars,
                   members, bulk, listing, filtering>>

\* The member's method returns or raises; the future keeps the exception.
MemberFinish(i) ==
    /\ bulk.st = "running"
    /\ futures[i].st = "running"
    /\ \E okCall \in BOOLEAN, okGet \in BOOLEAN :
         LET out == MemberOutcome(bulk.op, members[i], okCall, okGet)
         IN  /\ members' = [members EXCEPT ![i] = out.m]
             /\ futures' = [futures EXCEPT ![i].st = "done", ![i].error = out.error]
    /\ UNCHANGED <<gw, built, attributes, status, client, task, display_id, last_html,
                   pc, cancelled, thr, published, lastOp, logged, registryVars,
                   bulk, listing, filtering>>

BulkReturn ==
    /\ bulk.st = "running"
    /\ BulkMayReturn
    /\ bulk' = [bulk EXCEPT !.st = "returned", !.result = BulkResult, !.failed = BulkFailed]
    /\ UNCHANGED <<gw, built, attributes, status, client, task, display_id, last_html,
                   pc, cancelled, thr, published, lastOp, logged, registryVars,
                   members, futures, listing, filtering>>

\* The caller goes on to the next bulk call.
BulkNext ==
    /\ bulk.st = "returned"
    /\ bulk' = NoBulk
    /\ futures' = <<>>
    /\ UNCHANGED <<gw, built, attributes, status, client, task, display_id, last_html,
                   pc, cancelled, thr, published, lastOp, logged, registryVars,
                   members, listing, filtering>>

\* No JobList.list() call, no JobList.filter() call.
NoListing == [pc |-> "idle"]

NoFiltering == [pc |-> "idle"]

----------------------------------------------------------------------------
(* JobList.list(), lines 829-896 *)

\* Bounds: the largest collection the Gateway holds, the largest page_size
\* argument, the largest page argument.
MaxCount == 6

MaxPageSize == 3

MaxStartPage == 1

Min(a, b) == IF a < b THEN a ELSE b

\* Gateway.list(page, page_size) over a collection of n executions, numbered
\* 1..n in Gateway order: {"count": n, "data": the executions of that page}.
GatewayListData(n, page, pageSize) ==
    [k \in 1 .. (Min(n, (page + 1) * pageSize) - Min(n, page * pageSize))
        |-> page * pageSize + k]

GatewayListCount(n) == n

\* The loop without the check of lines 887-889.
MorePagesUntilPartial(count, pageLen, total, pageSize) ==
    count > pageSize /\ ~(pageLen < pageSize)

\* Lines 882-893: does the loop go on to the next page.  count: the response's
\* count; pageLen: len(page_dtos); total: len(all_dtos) after the extend.
MorePages(count, pageLen, total, pageSize) ==
    /\ count > pageSize
    /\ ~(pageLen < pageSize)
    /\ ~(total >= count)

\* A response of Gateway.list as the loop reads it: is it a dict, its count (0
\* when missing), the length of its data.
Response(dict, count, len) == [dict |-> dict, count |-> count, len |-> len]

NoResponse == Response(TRUE, 0, 0)

\* JobList.list(page=start, page_size=pageSize): lines 851-856.
ListStart ==
    /\ listing.pc = "idle"
    /\ \E n \in 0 .. MaxCount, pageSize \in 1 .. MaxPageSize, start \in 0 .. MaxStartPage :
         listing' = [pc |-> "fetching", n |-> n, page_size |-> pageSize, start |-> start,
                     current_page |-> start, calls |-> <<>>, all_dtos |-> <<>>,
                     response |-> NoResponse, jobs |-> <<>>, gets |-> 0]
    /\ UNCHANGED <<gw, built, attributes, status, client, task, display_id, last_html,
                   pc, cancelled, thr, published, lastOp, logged, registryVars,
                   members, bulk, futures, filtering>>

\* One iteration of the loop, lines 858-893.
ListFetch ==
    /\ listing.pc = "fetching"
    /\ LET page_dtos == GatewayListData(listing.n, listing.current_page, listing.page_size)
           all == listing.all_dtos \o page_dtos
       IN  listing' = [listing EXCEPT
                         !.calls = Append(@, listing.current_page),
                         !.all_dtos = all,
                         !.response = Response(TRUE, GatewayListCount(listing.n),
                                               Len(page_dtos)),
                         !.current_page =
                            IF MorePages(GatewayListCount(listing.n), Len(page_dtos),
                                         Len(all), listing.page_size)
                              THEN @ + 1 ELSE @,
                         !.pc =
                            IF MorePages(GatewayListCount(listing.n), Len(page_dtos),
                                         Len(all), listing.page_size)
                              THEN "fetching" ELSE "fetched"]
    /\ UNCHANGED <<gw, built, attributes, status, client, task, display_id, last_html,
                   pc, cancelled, thr, published, lastOp, logged, registryVars,
                   members, bulk, futures, filtering>>

\* One iteration of the loop, lines 858-893, against a Gateway whose collection
\* changes between the calls: any count up to MaxCount, any page of at most
\* page_size executions, or a response that is a bare list.
ListFetchAny ==
    /\ listing.pc = "fetching"
    /\ \E dict \in BOOLEAN, count \in 0 .. MaxCount, len \in 0 .. listing.page_size :
         LET page_dtos == [k \in 1 .. len |-> Len(listing.all_dtos) + k]
             all == listing.all_dtos \o page_dtos
             more == dict /\ MorePages(count, len, Len(all), listing.page_size)
         IN  listing' = [listing EXCEPT
                           !.calls = Append(@, listing.current_page),
                           !.all_dtos = all,
                           !.response = Response(dict, IF dict THEN count ELSE 0, len),
                           !.current_page = IF more THEN @ + 1 ELSE @,
                           !.pc = IF more THEN "fetching" ELSE "fetched"]
    /\ UNCHANGED <<gw, built, attributes, status, client, task, display_id, last_html,
                   pc, cancelled, thr, published, lastOp, logged, registryVars,
                   members, bulk, futures, filtering>>

\* Line 896, JobList.from_dtos (line 933): one Job.from_dto per DTO, in order;
\* from_dto calls the Gateway in no way.
FromDtos(dtos) == dtos

FromDtosGets(dtos) == 0

ListReturn ==
    /\ listing.pc = "fetched"
    /\ listing' = [listing EXCEPT !.pc = "returned",
                                  !.jobs = FromDtos(listing.all_dtos),
                                  !.gets = FromDtosGets(listing.all_dtos)]
    /\ UNCHANGED <<gw, built, attributes, status, client, task, display_id, last_html,
                   pc, cancelled, thr, published, lastOp, logged, registryVars,
                   members, bulk, futures, filtering>>

\* The caller goes on to the next list() call.
ListNext ==
    /\ listing.pc = "returned"
    /\ listing' = NoListing
    /\ UNCHANGED <<gw, built, attributes, status, client, task, display_id, last_html,
                   pc, cancelled, thr, published, lastOp, logged, registryVars,
                   members, bulk, futures, filtering>>

----------------------------------------------------------------------------
(* JobList.filter(), lines 666-766 *)

\* Bound: the longest JobList filtered.
MaxJobs == 2

\* A key the snapshot does not hold.
Absent == "Absent"

\* Snapshots: "tool" is missing or a {key, version} object; "approveAmount" is
\* missing, null or a number.
NoTool == [key |-> Absent, version |-> Absent]

Tools == {NoTool, [key |-> "k1", version |-> "v1"], [key |-> "k1", version |-> "v2"]}

NoAttributes == [held |-> FALSE, tool |-> NoTool, approveAmount |-> Absent]

FilterSnapshots ==
    {[held |-> TRUE, tool |-> t, approveAmount |-> a] : t \in Tools, a \in {Absent, None, "100"}}

\* Member Jobs: Job.status and Job._attributes (None for a Job made without sync).
FilterJobs ==
    {[status |-> st, attributes |-> a] :
        st \in {"Running", "Succeeded"}, a \in FilterSnapshots \cup {NoAttributes}}

FilterLists == UNION {[1 .. n -> FilterJobs] : n \in 0 .. MaxJobs}

\* kwargs without the key.
NotGiven == "NotGiven"

\* The arguments of a call: status, tool_key, tool_version (None by default),
\* **kwargs with or without approveAmount=..., predicate (None by default).
Criteria ==
    [status : {None, "Succeeded"}, tool_key : {None, "k1"}, tool_version : {None, "v1"},
     approveAmount : {NotGiven, None, "100"}, predicate : {None, "has_snapshot"}]

NoCriteria ==
    [status |-> None, tool_key |-> None, tool_version |-> None,
     approveAmount |-> NotGiven, predicate |-> None]

\* `job._attributes and ...`: a snapshot is held (and is not empty).
Truthy(a) == a.held

\* dict.get(key): None when the key is missing.
DictGet(v) == IF v = Absent THEN None ELSE v

\* job._attributes.get("tool", {}).get(field)
ToolGet(a, field) == DictGet(a.tool[field])

\* A status filter that stops at the first Job that does not match.
FilterStatusPrefix(jobs, st) ==
    LET firstOther == {i \in 1 .. Len(jobs) : jobs[i].status # st}
    IN  IF firstOther = {} THEN jobs
        ELSE SubSeq(jobs, 1, (CHOOSE i \in firstOther : \A k \in firstOther : i <= k) - 1)

\* Lines 733-734
FilterStatus(jobs, st) == SelectSeq(jobs, LAMBDA job : job.status = st)

\* Lines 737-743
FilterToolKey(jobs, key) ==
    SelectSeq(jobs, LAMBDA job : Truthy(job.attributes) /\ ToolGet(job.attributes, "key") = key)

\* Lines 746-752
FilterToolVersion(jobs, version) ==
    SelectSeq(jobs, LAMBDA job :
        Truthy(job.attributes) /\ ToolGet(job.attributes, "version") = version)

\* Lines 755-760, for the key approveAmount
FilterAttribute(jobs, value) ==
    SelectSeq(jobs, LAMBDA job :
        Truthy(job.attributes) /\ DictGet(job.attributes.approveAmount) = value)

\* predicate(job): lambda job: job._attributes is not None
Predicate(name, job) == job.attributes.held

\* Lines 763-764
FilterPredicate(jobs, name) == SelectSeq(jobs, LAMBDA job : Predicate(name, job))

\* Lines 730-764: the criteria given are applied one after the other.
Filtered(jobs, c) ==
    LET f1 == IF c.status # None THEN FilterStatus(jobs, c.status) ELSE jobs
        f2 == IF c.tool_key # None THEN FilterToolKey(f1, c.tool_key) ELSE f1
        f3 == IF c.tool_version # None THEN FilterToolVersion(f2, c.tool_version) ELSE f2
        f4 == IF c.approveAmount # NotGiven THEN FilterAttribute(f3, c.approveAmount) ELSE f3
        f5 == IF c.predicate # None THEN FilterPredicate(f4, c.predicate) ELSE f4
    IN  f5

\* Lines 730 and 766: `filtered = self.jobs` is rebound only by a criterion that
\* is applied; JobList(filtered) keeps the list object it is given.
SharesList(c) ==
    /\ c.status = None
    /\ c.tool_key = None
    /\ c.tool_version = None
    /\ c.approveAmount = NotGiven
    /\ c.predicate = None

\* The member sequence of the JobList a filter() call returned.
ReturnedJobs == IF filtering.shared THEN filtering.original ELSE filtering.out

\* original.filter(**c)
FilterCall ==
    /\ filtering.pc = "built"
    /\ \E c \in Criteria :
         filtering' = [filtering EXCEPT !.pc = "returned", !.criteria = c,
                                       !.shared = SharesList(c),
                                       !.out = IF SharesList(c) THEN <<>>
                                               ELSE Filtered(filtering.original, c)]
    /\ UNCHANGED <<gw, built, attributes, status, client, task, display_id, last_html,
                   pc, cancelled, thr, published, lastOp, logged, registryVars,
                   members, bulk, futures, listing>>

\* The caller changes the returned JobList: returned.jobs.pop().
PopReturned ==
    /\ filtering.pc = "returned"
    /\ Len(ReturnedJobs) > 0
    /\ filtering' = IF filtering.shared
                      THEN [filtering EXCEPT !.pc = "changed",
                                             !.original = SubSeq(@, 1, Len(@) - 1)]
                      ELSE [filtering EXCEPT !.pc = "changed",
                                             !.out = SubSeq(@, 1, Len(@) - 1)]
    /\ UNCHANGED <<gw, built, attributes, status, client, task, display_id, last_html,
                   pc, cancelled, thr, published, lastOp, logged, registryVars,
                   members, bulk, futures, listing>>

----------------------------------------------------------------------------
(* DeepOriginClient: the registry of cached clients (client.py) *)

\* Bound: the number of DeepOriginClient objects constructed.
MaxClients == 3

ClientIds == 1 .. MaxClients

NoClient == 0

\* A base URL: a host followed by some "/" characters.
BaseUrl(host, slashes) == [host |-> host, slashes |-> slashes]

BaseUrls == {BaseUrl("u", 0), BaseUrl("u", 1), BaseUrl("u", 2), BaseUrl("w", 1)}

Tokens == {"t1", "t2"}

\* The organisation of the configuration on disk.
OrgKey == "o"

\* base_url.rstrip("/") + "/", lines 88 and 153
Normalize(base_url) == [base_url EXCEPT !.slashes = 1]

\* Lines 153-154
RegistryKey(base_url, token) == <<Normalize(base_url), token, OrgKey>>

\* The registry is a dict: entries [key, inst] in insertion order, one per key.
HasKey(reg, key) == \E i \in DOMAIN reg : reg[i].key = key

\* cls._instances[key]
Cached(reg, key) ==
    IF HasKey(reg, key) THEN reg[CHOOSE i \in DOMAIN reg : reg[i].key = key].inst
                        ELSE NoClient

\* cls._instances.pop(key, None)
Popped(reg, key) == SelectSeq(reg, LAMBDA e : e.key # key)

\* cls._instances[key] = inst, for a key the registry does not hold
Inserted(reg, key, inst) == Append(reg, [key |-> key, inst |-> inst])

\* An object not yet constructed; __init__, lines 84-104: an open transport.
NotConstructed == [st |-> "unborn", key |-> <<>>]

Constructed(key) == [st |-> "open", key |-> key]

UnbornClients == {i \in ClientIds : clients[i].st = "unborn"}

NewClient == CHOOSE i \in UnbornClients : \A k \in UnbornClients : i <= k

NoClientOp ==
    [op |-> "none", key |-> <<>>, replace |-> FALSE, returned |-> NoClient, made |-> 0,
     result |-> "ok"]

\* _detach_from_registry(), lines 205-207: the entry goes if it is this object.
Detached(reg, inst) ==
    IF HasKey(reg, clients[inst].key) /\ Cached(reg, clients[inst].key) = inst
      THEN Popped(reg, clients[inst].key)
      ELSE reg

\* close(), lines 342-345: the transport is closed (closing twice is allowed),
\* then the object leaves the registry.
Closed(cl, inst) == [cl EXCEPT ![inst].st = "closed"]

\* Lines 156-160: with replace=True a cached instance is closed and dropped.
Replaces(reg, key, replace) == replace /\ HasKey(reg, key)

\* What a DeepOriginClient call leaves alone.
RegistryFrame ==
    UNCHANGED <<gw, built, attributes, status, client, task, display_id, last_html,
                pc, cancelled, thr, published, lastOp, logged,
                members, bulk, futures, listing, filtering>>

\* A get() that never reuses an instance.
MustConstructAlways(reg, key) == TRUE

\* Line 162
MustConstruct(reg, key) == ~HasKey(reg, key)

\* DeepOriginClient.get(token=, env=, base_url=, replace=), lines 136-172, with
\* env given whenever base_url is (as __init__ demands) and credentials that
\* resolve.
ClientGet ==
    /\ RegistryFrame
    /\ \E base_url \in BaseUrls, token \in Tokens, replace \in BOOLEAN :
        LET key == RegistryKey(base_url, token)
            old == Cached(instances, key)
            reg1 == IF Replaces(instances, key, replace)
                      THEN Popped(Detached(instances, old), key) ELSE instances
            cl1 == IF Replaces(instances, key, replace) THEN Closed(clients, old)
                                                        ELSE clients
        IN  IF MustConstruct(reg1, key)
              THEN /\ UnbornClients # {}
                   /\ clients' = [cl1 EXCEPT ![NewClient] = Constructed(key)]
                   /\ instances' = Inserted(Popped(reg1, key), key, NewClient)
                   /\ clientOp' = [op |-> "get", key |-> key, replace |-> replace,
                                   returned |-> NewClient, made |-> 1, result |-> "ok"]
              ELSE /\ clients' = cl1
                   /\ instances' = reg1
                   /\ clientOp' = [op |-> "get", key |-> key, replace |-> replace,
                                   returned |-> Cached(reg1, key), made |-> 0,
                                   result |-> "ok"]

\* DeepOriginClient(token=, env=, base_url=): an object the registry does not hold.
ClientInit ==
    /\ UnbornClients # {}
    /\ \E base_url \in BaseUrls, token \in Tokens :
         /\ clients' = [clients EXCEPT ![NewClient] = Constructed(RegistryKey(base_url, token))]
         /\ clientOp' = [op |-> "init", key |-> RegistryKey(base_url, token),
                         replace |-> FALSE, returned |-> NewClient, made |-> 1,
                         result |-> "ok"]
    /\ UNCHANGED instances
    /\ RegistryFrame

\* inst.close(), lines 334-345
ClientClose ==
    /\ RegistryFrame
    /\ \E inst \in ClientIds \ UnbornClients :
        /\ clients' = Closed(clients, inst)
        /\ instances' = Detached(instances, inst)
        /\ clientOp' = [op |-> "close", key |-> clients[inst].key, replace |-> FALSE,
                        returned |-> NoClient, made |-> 0, result |-> "ok"]

\* DeepOriginClient.close_all(), lines 182-184.  The loop runs over the dict's
\* live values(); the first inst.close() pops its entry, and the iterator's next
\* step finds the dict's size changed and raises RuntimeError: line 184 is
\* reached only when the registry was empty.
ClientCloseAll ==
    /\ RegistryFrame
    /\ IF instances = <<>>
         THEN /\ clientOp' = [op |-> "close_all", key |-> <<>>, replace |-> FALSE,
                              returned |-> NoClient, made |-> 0, result |-> "ok"]
              /\ UNCHANGED <<instances, clients>>
         ELSE /\ clients' = Closed(clients, Head(instances).inst)
              /\ instances' = Detached(instances, Head(instances).inst)
              /\ clientOp' = [op |-> "close_all", key |-> <<>>, replace |-> FALSE,
                              returned |-> NoClient, made |-> 0,
                              result |-> "RuntimeError"]

NoClients ==
    /\ instances = <<>>
    /\ clients = [i \in ClientIds |-> NotConstructed]
    /\ clientOp = NoClientOp

----------------------------------------------------------------------------
(* Specifications *)

\* No JobList in use.
NoJobList ==
    /\ members = <<>>
    /\ bulk = NoBulk
    /\ futures = <<>>
    /\ listing = NoListing
    /\ filtering = NoFiltering
    /\ NoClients

InitJob ==
    /\ NoJobList
    /\ gw \in {Dto("Quoted"), Dto("Running")}
    /\ built = FALSE
    /\ attributes = NoSnapshot
    /\ status = None
    /\ client = FALSE
    /\ task = NoTask
    /\ display_id = NoDisplay
    /\ last_html = NoHtml
    /\ pc = [p \in Pollers |-> "unborn"]
    /\ cancelled = [p \in Pollers |-> FALSE]
    /\ thr = [t \in Threads |-> IdleThread]
    /\ published = NotDisplayed
    /\ lastOp = NoOp

\* The user calls of a Job.
UserCalls == {"from_id", "from_dto", "sync", "cancel", "confirm", "watch", "stop_watching"}

Init == InitJob /\ logged = {}

InitCalls == InitJob /\ logged = UserCalls

InitStop == InitJob /\ logged = {"stop_watching"}

\* No single Job in use: the Job of the first part is never constructed.
NoJob ==
    /\ gw = Dto("Quoted")
    /\ built = FALSE
    /\ attributes = NoSnapshot
    /\ status = None
    /\ client = FALSE
    /\ task = NoTask
    /\ display_id = NoDisplay
    /\ last_html = NoHtml
    /\ pc = [p \in Pollers |-> "unborn"]
    /\ cancelled = [p \in Pollers |-> FALSE]
    /\ thr = [t \in Threads |-> IdleThread]
    /\ published = NotDisplayed
    /\ lastOp = NoOp
    /\ logged = {}

\* A JobList of any members, on which confirm() and cancel() are called.
InitBulk ==
    /\ NoJob
    /\ members \in MemberLists
    /\ bulk = NoBulk
    /\ futures = <<>>
    /\ listing = NoListing
    /\ filtering = NoFiltering
    /\ NoClients

NextBulk ==
    \/ BulkStart
    \/ \E i \in DOMAIN members : MemberStart(i)
    \/ \E i \in DOMAIN members : MemberFinish(i)
    \/ BulkReturn
    \/ BulkNext

SpecBulk == InitBulk /\ [][NextBulk]_vars

\* JobList.list() called against a Gateway whose collection does not change.
InitList ==
    /\ NoJob
    /\ NoJobList

NextList ==
    \/ ListStart
    \/ ListFetch
    \/ ListReturn
    \/ ListNext

SpecList == InitList /\ [][NextList]_vars

\* JobList.list() called against a Gateway whose collection changes.
NextListAny ==
    \/ ListStart
    \/ ListFetchAny
    \/ ListReturn
    \/ ListNext

SpecListAny == InitList /\ [][NextListAny]_vars

\* Each Gateway call returns or times out.
FairSpecListAny == SpecListAny /\ WF_vars(ListFetchAny)

\* A JobList of any members, filtered once; the result may then be changed.
InitFilter ==
    /\ NoJob
    /\ NoClients
    /\ members = <<>>
    /\ bulk = NoBulk
    /\ futures = <<>>
    /\ listing = NoListing
    /\ \E jobs \in FilterLists :
         filtering = [pc |-> "built", original |-> jobs, criteria |-> NoCriteria,
                      shared |-> FALSE, out |-> <<>>]

NextFilter ==
    \/ FilterCall
    \/ PopReturned

SpecFilter == InitFilter /\ [][NextFilter]_vars

\* Calls on DeepOriginClient made one after the other on one thread.
InitRegistry ==
    /\ NoJob
    /\ NoJobList

NextRegistry ==
    \/ ClientGet
    \/ ClientInit
    \/ ClientClose
    \/ ClientCloseAll

SpecRegistry == InitRegistry /\ [][NextRegistry]_vars

\* User calls made one after the other while the event loop does not run
\* (the calls of one notebook cell), each recorded in lastOp.
NextCalls ==
    \/ GatewayProgress
    \/ FromId
    \/ FromDto
    \/ Sync
    \/ Cancel
    \/ Confirm
    \/ WatchTerminal
    \/ WatchStart
    \/ StopWatching

SpecCalls == InitCalls /\ [][NextCalls]_vars

PollerStep(p) ==
    \/ PollerStart(p)
    \/ PollerWake(p)
    \/ PollerTick(p)
    \/ PollerFinal(p)
    \/ PollerCancelled(p)

ThreadStep(t) ==
    \/ ThreadWriteAttributes(t)
    \/ ThreadWriteStatus(t)

Next ==
    \/ GatewayProgress
    \/ FromId
    \/ FromDto
    \/ Sync
    \/ Cancel
    \/ Confirm
    \/ WatchTerminal
    \/ WatchStart
    \/ StopWatching
    \/ \E p \in Pollers : PollerStep(p)
    \/ \E t \in Threads : ThreadStep(t)

Spec == Init /\ [][Next]_vars

\* Spec with the stop_watching() calls recorded in lastOp.
SpecStop == InitStop /\ [][Next]_vars

\* The event loop runs every ready coroutine, and every worker thread runs on
\* (each HTTP call returns or times out).
FairSpec ==
    /\ Spec
    /\ \A p \in Pollers : WF_vars(PollerStep(p))
    /\ \A t \in Threads : WF_vars(ThreadStep(t))

----------------------------------------------------------------------------
(* Properties of the user calls (SpecCalls) *)

\* The Gateway calls among the calls a user call made.
GatewayCalls(op) == SelectSeq(op.calls, LAMBDA c : c \in {"get", "cancel", "confirm"})

\* C1: confirm() on a Job whose cached status is not Quoted fails with the
\* invalid-state error, which reports that status; it calls the Gateway neither
\* for confirm nor for get, and leaves the snapshot and the status as they were.
C1_ConfirmRefused ==
    [][(lastOp'.op = "confirm" /\ status # "Quoted")
         => /\ lastOp'.result = "InvalidState"
            /\ lastOp'.reported = status
            /\ GatewayCalls(lastOp') = <<>>
            /\ gw' = gw
            /\ attributes' = attributes
            /\ status' = status]_vars

\* confirm() was refused on a running Job whose Gateway would have been reachable.
C1_Witness ==
    /\ lastOp.op = "confirm"
    /\ lastOp.result = "InvalidState"
    /\ lastOp.reported = "Running"
    /\ status = "Running"
    /\ client

\* C2: confirm() on a Job whose cached status is Quoted calls Gateway.confirm
\* once; if that succeeds it calls Gateway.get once, and a successful get leaves
\* the snapshot and the status as that DTO has them.
C2_ConfirmQuoted ==
    [][(lastOp'.op = "confirm" /\ status = "Quoted")
         => /\ GatewayCalls(lastOp') \in {<<"confirm">>, <<"confirm", "get">>}
            /\ lastOp'.result = "ok"
                 => /\ lastOp'.calls = <<"confirm", "get">>
                    /\ attributes' = lastOp'.dto
                    /\ status' = DtoStatus(lastOp'.dto)]_vars

\* C3: cancel() on a Job in any status calls Gateway.cancel once; if that
\* succeeds it calls Gateway.get once, and a successful get leaves the snapshot
\* and the status as that DTO has them.
C3_CancelAnyStatus ==
    [][lastOp'.op = "cancel"
         => /\ GatewayCalls(lastOp') \in {<<"cancel">>, <<"cancel", "get">>}
            /\ lastOp'.result = "ok"
                 => /\ lastOp'.calls = <<"cancel", "get">>
                    /\ attributes' = lastOp'.dto
                    /\ status' = DtoStatus(lastOp'.dto)]_vars

\* C4: when the Gateway.get of a sync() fails, the snapshot and the status stay
\* as they were and the call ends with the Gateway's error.
C4_FailedSync ==
    [][(lastOp'.op = "sync" /\ lastOp'.dto = NoSnapshot)
         => /\ lastOp'.calls = <<"get">>
            /\ lastOp'.result = "GatewayError"
            /\ attributes' = attributes
            /\ status' = status]_vars

\* A sync() failed on a Job holding a snapshot the Gateway no longer agrees with.
C4_Witness ==
    /\ lastOp.op = "sync"
    /\ lastOp.result = "GatewayError"
    /\ attributes = Dto("Running")
    /\ status = "Running"
    /\ gw = Dto("Succeeded")

\* C5: with calls made one at a time, the status of a constructed Job is the
\* status field of its snapshot, and the snapshot is the whole DTO of the most
\* recent successful Gateway.get, or the DTO given at construction: a call that
\* was given or got a DTO leaves that DTO as the snapshot, any other call leaves
\* the snapshot alone.
C5_StatusIsSnapshotStatus ==
    /\ [](built => (attributes # NoSnapshot /\ status = DtoStatus(attributes)))
    /\ [][IF lastOp'.dto # NoSnapshot
            THEN attributes' = lastOp'.dto
            ELSE attributes' = attributes]_vars

\* confirm() went through at the Gateway but its get failed: the Job still holds
\* the construction DTO.
C5_Witness ==
    /\ lastOp.op = "confirm"
    /\ lastOp.calls = <<"confirm", "get">>
    /\ lastOp.result = "GatewayError"
    /\ attributes = Dto("Quoted")
    /\ status = "Quoted"
    /\ gw = Dto("Running")

\* C12: Job.from_dto(dto), for a dto with an executionId, calls the Gateway in
\* no way and builds a Job whose snapshot is the dto given and whose status is
\* the dto's status.
C12_FromDto ==
    [][lastOp'.op = "from_dto"
         => /\ lastOp'.calls = <<>>
            /\ gw' = gw
            /\ built'
            /\ attributes' = lastOp'.dto
            /\ status' = lastOp'.dto.status]_vars

\* A Job was built from a DTO the Gateway no longer agrees with.
C12_Witness ==
    /\ lastOp.op = "from_dto"
    /\ built
    /\ attributes = Dto("Quoted")
    /\ status = "Quoted"
    /\ gw = Dto("Succeeded")

\* C13: Job.from_id(id) calls Gateway.get once during construction and the
\* Gateway in no other way; when the get succeeds the new Job's snapshot and
\* status are those of the DTO the Gateway holds.
C13_FromId ==
    [][lastOp'.op = "from_id"
         => /\ lastOp'.calls = <<"get">>
            /\ gw' = gw
            /\ lastOp'.result = "ok"
                 => /\ built'
                    /\ lastOp'.dto = gw
                    /\ attributes' = gw
                    /\ status' = gw.status]_vars

\* A Job was built from the id of an execution that had finished.
C13_Witness ==
    /\ lastOp.op = "from_id"
    /\ lastOp.result = "ok"
    /\ built
    /\ attributes = Dto("Succeeded")
    /\ status = "Succeeded"

----------------------------------------------------------------------------
(* Properties of JobList.confirm() and JobList.cancel() (SpecBulk) *)

\* C14: JobList.confirm() and JobList.cancel() call the member's method once
\* for every member, whatever the other members' calls did, and return only
\* after every member's call has ended: no future is invoked twice, and when
\* the bulk call has returned every future is done and was invoked once.
C14_EveryMemberOnce ==
    /\ \A i \in DOMAIN futures : futures[i].invoked <= 1
    /\ bulk.st = "returned"
         => /\ DOMAIN futures = DOMAIN members
            /\ \A i \in DOMAIN futures :
                 futures[i].st = "done" /\ futures[i].invoked = 1

\* A bulk confirm() has returned: the first member's call raised, the second
\* member's call went through.
C14_Witness ==
    /\ bulk.st = "returned"
    /\ bulk.op = "confirm"
    /\ Len(members) = 2
    /\ futures[1].error = "InvalidState"
    /\ futures[2].error = None
    /\ members[2].status = "Running"

\* C15: when member operations fail, the bulk call, once all members were
\* attempted, ends with an aggregate failure that names every failing member.
C15_AggregateFailure ==
    (bulk.st = "returned" /\ FailedFutures # {})
        => /\ bulk.result = "AggregateFailure"
           /\ bulk.failed = FailedFutures

----------------------------------------------------------------------------
(* Properties of JobList.list() (SpecList) *)

\* ceil(n / p), at least 1.
PagesOf(n, p) == IF n = 0 THEN 1 ELSE (n + p - 1) \div p

\* C16: against an unchanging collection of n executions with count = n,
\* JobList.list(page_size = p) from page 0 makes max(1, ceil(n/p)) Gateway list
\* calls, for pages 0, 1, 2, ... in turn, and returns the n executions in
\* Gateway order, each once, built without a Gateway.get.
C16_ListPages ==
    (listing.pc = "returned" /\ listing.start = 0)
        => /\ listing.calls = [k \in 1 .. PagesOf(listing.n, listing.page_size) |-> k - 1]
           /\ listing.jobs = [k \in 1 .. listing.n |-> k]
           /\ listing.gets = 0

\* A list() of 6 executions in pages of 3 has returned: the second page was full
\* and the last.
C16_Witness ==
    /\ listing.pc = "returned"
    /\ listing.start = 0
    /\ listing.n = 6
    /\ listing.page_size = 3
    /\ listing.calls = <<0, 1>>
    /\ Len(listing.jobs) = 6

----------------------------------------------------------------------------
(* Properties of the pollers (Spec, FairSpec) *)

\* The coroutine of poller p is between its first step and its end, and no
\* CancelledError is waiting for it.
Running(p) ==
    \/ pc[p] \in InFinally
    \/ pc[p] \in InLoop /\ ~cancelled[p]

\* C6: however often watch() is called, at no point are two poller tasks of the
\* Job running at once.
C6_OnePollerRunning ==
    \A p, q \in Pollers : (Running(p) /\ Running(q)) => p = q

\* The step is the tick of poller p: the sync it awaited has returned or raised.
TickOf(p) == pc[p] = "loopSync" /\ ~cancelled[p] /\ pc'[p] # pc[p]

\* The tick of poller p in which sync, render and publish all succeeded.
TickSucceeded(p) ==
    /\ TickOf(p)
    /\ thr[LoopThread(p)].st = "ok"
    /\ CanPublish
    /\ published' = Plain(RenderView(TRUE))

\* C7: a tick whose sync failed does not end the poller: it publishes the banner
\* over the last view a tick published and sleeps until the next tick; and when
\* the loop was left on a terminal status, the final render that is published
\* shows a terminal status.
C7_SurvivesSyncFailure ==
    [][\A p \in Pollers :
         /\ (TickOf(p) /\ thr[LoopThread(p)].st = "failed")
              => /\ pc'[p] = "sleep"
                 /\ published' = BannerOver(last_html)
         /\ (pc[p] = "finalTerminal" /\ ~cancelled[p] /\ pc'[p] = "done")
              => /\ published'.kind = "view"
                 /\ IsTerminal(published'.html.status)]_vars

\* C8: a tick that synced, rendered and published while the cached status is
\* terminal leaves the loop for the cleanup; a poller that has left its loop
\* never syncs or sleeps in the loop again; and it finishes (no poller stays
\* in its cleanup forever, and the cleanup leads nowhere but to the end).
C8_TerminalTickEndsPoller ==
    /\ [][\A p \in Pollers :
            /\ (TickSucceeded(p) /\ IsTerminal(status))
                 => pc'[p] = "finalTerminal"
            /\ pc[p] \in InFinally \cup {"done"}
                 => pc'[p] \in InFinally \cup {"done"}]_vars
    /\ \A p \in Pollers : []<>(pc[p] \notin InFinally)

\* A poller that left its loop on a terminal status has finished and released
\* the display.
C8_Witness ==
    \E p \in Pollers :
      /\ pc[p] = "done"
      /\ published = Plain([status |-> "Succeeded", auto |-> FALSE])
      /\ last_html = [status |-> "Succeeded", auto |-> FALSE]
      /\ display_id = NoDisplay

\* Poller p leaves its loop in this step, stopped or after a tick that
\* published a terminal status.
LeavesLoop(p) ==
    /\ pc[p] \in InLoop
    /\ pc'[p] \notin InLoop
    /\ cancelled[p] \/ (TickSucceeded(p) /\ IsTerminal(status))

\* C10: whenever a poller leaves its loop, because the status is terminal or
\* because it was stopped, it starts the cleanup (one final sync); a cleanup
\* that is not cancelled ends by releasing the display handle.
C10_CleanupOnLoopExit ==
    [][\A p \in Pollers :
         /\ LeavesLoop(p)
              => /\ pc'[p] \in InFinally
                 /\ thr'[FinalThread(p)].st \in {"got", "failed"}
         /\ (pc[p] \in InFinally /\ ~cancelled[p] /\ pc'[p] = "done")
              => display_id' = NoDisplay]_vars

\* Poller p was the Job's task when stop_watching() ran (in watch() or called
\* by the user): a task was created for it and the handle no longer names it.
Stopped(p) == pc[p] # "unborn" /\ task # p

\* C11: stop_watching() never raises, whether the task it finds is running, has
\* finished or was never started, and leaves the task handle none; a poller
\* that was stopped starts no further polling iteration: it takes no step to a
\* new place in its loop (only to its cleanup or its end).
C11_StopWatching ==
    [][/\ lastOp'.op = "stop_watching"
            => /\ lastOp'.result = "ok"
               /\ task' = NoTask
       /\ \A p \in Pollers :
            (Stopped(p) /\ pc'[p] # pc[p]) => pc'[p] \notin InLoop]_vars

\* stop_watching() returned on a Job whose poller was in its loop: the handle
\* is none and the poller has been told to stop.
C11_WitnessRunning ==
    /\ lastOp.op = "stop_watching"
    /\ task = NoTask
    /\ \E p \in Pollers : pc[p] \in InLoop /\ cancelled[p]

\* C9: watch() on a Job whose cached status is terminal renders once and
\* returns: no Gateway call, no poller task created or cancelled, the task and
\* display handles as they were.
C9_WatchTerminal ==
    [][(lastOp'.op = "watch" /\ IsTerminal(status))
         => /\ lastOp'.calls = <<"render">>
            /\ gw' = gw
            /\ pc' = pc
            /\ cancelled' = cancelled
            /\ thr' = thr
            /\ task' = task
            /\ display_id' = display_id]_vars

\* watch() returned early on a Job that still holds the handles of an earlier
\* watch().
C9_Witness ==
    /\ lastOp.op = "watch"
    /\ lastOp.calls = <<"render">>
    /\ IsTerminal(status)
    /\ task # NoTask
    /\ display_id # NoDisplay

----------------------------------------------------------------------------
(* JobList.filter: claims *)

\* A Job satisfies the criteria given: the status is the one asked for, the
\* snapshot names the tool key and version asked for, the snapshot holds the
\* attribute with the value asked for, and the predicate accepts the Job.
Satisfies(job, c) ==
    /\ c.status # None => job.status = c.status
    /\ c.tool_key # None => job.attributes.held /\ job.attributes.tool.key = c.tool_key
    /\ c.tool_version # None =>
         job.attributes.held /\ job.attributes.tool.version = c.tool_version
    /\ c.approveAmount # NotGiven =>
         /\ job.attributes.held
         /\ job.attributes.approveAmount # Absent
         /\ job.attributes.approveAmount = c.approveAmount
    /\ c.predicate # None => Predicate(c.predicate, job)

\* C17: filter returns exactly the members that satisfy every criterion given,
\* in their original order and with duplicates kept; with no criteria the
\* returned sequence is the original one.
C17_ExactlyTheSatisfying ==
    filtering.pc = "returned" =>
        /\ ReturnedJobs = SelectSeq(filtering.original,
                                    LAMBDA job : Satisfies(job, filtering.criteria))
        /\ filtering.criteria = NoCriteria => ReturnedJobs = filtering.original

\* C18: the original JobList's member sequence is changed neither by filter()
\* nor through the JobList it returned.
C18_OriginalUnchanged ==
    [][filtering'.original = filtering.original]_vars

\* C19: a filter k=v, whatever v is, returns no Job without a snapshot and no
\* Job whose snapshot lacks k.
C19_MissingAttributeExcluded ==
    (filtering.pc = "returned" /\ filtering.criteria.approveAmount # NotGiven) =>
        \A i \in DOMAIN ReturnedJobs :
            /\ ReturnedJobs[i].attributes.held
            /\ ReturnedJobs[i].attributes.approveAmount # Absent

\* The criteria of c named in fields, the others not given.
Only(c, fields) ==
    [f \in DOMAIN c |-> IF f \in fields THEN c[f] ELSE NoCriteria[f]]

----------------------------------------------------------------------------
(* DeepOriginClient: claims *)

\* The objects constructed so far.
ConstructedClients == {i \in ClientIds : clients[i].st # "unborn"}

C22_CloseAll ==
    /\ [][clientOp'.op = "close_all" =>
             /\ clientOp'.result = "ok"
             /\ instances' = <<>>
             /\ \A i \in DOMAIN instances : clients'[instances[i].inst].st = "closed"]_vars
    /\ [](\A i \in DOMAIN instances : clients[instances[i].inst].st = "open")

----------------------------------------------------------------------------
(* Pollers and concurrent syncs: claims *)

\* The sync() run by worker thread t has not finished.
InFlight(t) == thr[t].st \in {"got", "wrote"}

\* C23: the syncs of one poller never overlap: its loop sync and its final
\* cleanup sync are never in flight together.
C23_SequentialSyncs ==
    \A p \in Pollers : ~(InFlight(LoopThread(p)) /\ InFlight(FinalThread(p)))

\* C24: once no sync is in flight, the snapshot and the status of the Job come
\* from the same Gateway response: the status is the snapshot's status.
C24_OneResponse ==
    (built /\ \A t \in Threads : ~InFlight(t)) => status = DtoStatus(attributes)

\* C25: a polling-task handle that is set names a poller that has not ended:
\* after a poller finished on its own or was stopped the handle is none.
C25_HandleIsActive ==
    task # NoTask => pc[task] # "done"

\* C26: a tick whose sync succeeded but whose render or publish raised does not
\* end the poller: it publishes the banner over the last view and sleeps until
\* the next tick.
C26_RenderFailureSurvived ==
    [][\A p \in Pollers :
         (TickOf(p) /\ thr[LoopThread(p)].st = "ok" /\ ~TickSucceeded(p))
            => /\ pc'[p] = "sleep"
               /\ published' = BannerOver(last_html)]_vars

\* Poller p starts a loop sync in this step.
StartsLoopSync(p) == pc'[p] = "loopSync" /\ pc[p] # "loopSync"

\* C27: a poller starts a loop sync only as its first step or when a sleep is
\* over; a tick, failed or not, that stays in the loop goes to sleep, and a
\* sleep is followed by one sync: between two loop syncs there is one sleep.
C27_SleepBetweenSyncs ==
    [][\A p \in Pollers :
         /\ StartsLoopSync(p) => pc[p] \in {"ready", "sleep"}
         /\ (TickOf(p) /\ pc'[p] \in InLoop) => pc'[p] = "sleep"
         /\ (pc[p] = "sleep" /\ pc'[p] \in InLoop) => pc'[p] \in {"sleep", "loopSync"}
         /\ (thr[LoopThread(p)].st \notin {"got", "failed"}
               /\ thr'[LoopThread(p)].st \in {"got", "failed"}) => StartsLoopSync(p)]_vars

\* The only poller of the Job awaits a loop sync after a tick of its own that
\* published a view, and so after a sleep.
C27_Witness ==
    /\ pc[1] = "loopSync"
    /\ \A p \in Pollers \ {1} : pc[p] = "unborn"
    /\ last_html # NoHtml

\* C28: the cleanup of a replaced poller leaves the new poller alone: the
\* display handle is dropped only by the poller the display was made for, as
\* it ends; a poller publishes only to its own display; and the poller of the
\* current watch() still runs its cleanup when it leaves its loop.
C28_ReplacedPollerHarmless ==
    [][/\ (display_id # NoDisplay /\ display_id' = NoDisplay)
            => pc[display_id] \in InFinally /\ pc'[display_id] = "done"
       /\ \A p \in Pollers :
            /\ (pc[p] # "unborn" /\ pc'[p] # pc[p] /\ p # display_id)
                 => published' = published
            /\ (task = p /\ pc[p] \in InLoop /\ pc'[p] \notin InLoop)
                 => pc'[p] \in InFinally]_vars

----------------------------------------------------------------------------
(* The default client: claims *)

\* C29: cancel(), and confirm() on a Quoted Job, call the Gateway whether or
\* not the Job was given a client: neither fails before its Gateway call.
C29_DefaultClientResolved ==
    [][(built /\ (lastOp'.op = "cancel" \/ (lastOp'.op = "confirm" /\ status = "Quoted")))
          => /\ lastOp'.result # "AttributeError"
             /\ Len(GatewayCalls(lastOp')) > 0]_vars

----------------------------------------------------------------------------
(* JobList.list() against a changing collection: claims *)

\* C30: whatever the Gateway answers (pages of at most page_size executions,
\* counts of at most MaxCount), list() makes at most max(1, ceil(MaxCount /
\* page_size)) calls; it stops on a response that is a short page, or whose
\* count the executions gathered have reached, or whose count is at most
\* page_size (or that is no dict); and it always stops.
C30_ListTerminates ==
    /\ [](listing.pc # "idle" =>
            /\ Len(listing.calls) <= PagesOf(MaxCount, listing.page_size)
            /\ listing.pc # "fetching" =>
                 /\ Len(listing.calls) >= 1
                 /\ \/ ~listing.response.dict
                    \/ listing.response.len < listing.page_size
                    \/ Len(listing.all_dtos) >= listing.response.count
                    \/ listing.response.count <= listing.page_size
            /\ (listing.pc = "fetching" /\ Len(listing.calls) >= 1) =>
                 /\ listing.response.dict
                 /\ listing.response.len = listing.page_size
                 /\ Len(listing.all_dtos) < listing.response.count
                 /\ listing.response.count > listing.page_size)
    /\ []<>(listing.pc # "fetching")

\* A list() that made as many calls as the bound allows while the count it was
\* told changed from call to call.
C30_Witness ==
    /\ listing.pc = "returned"
    /\ listing.page_size = 2
    /\ Len(listing.calls) = PagesOf(MaxCount, 2)
    /\ listing.response.count < MaxCount
    /\ listing.response.count > 2

====
